---- MODULE Spec2Model ----
(***************************************************************************)
(* A model of omnizart/feature/beat_for_drum.py:                           *)
(*                                                                         *)
(*   - MadmomBeatTracking.process, the three-estimator ensemble with its   *)
(*     sequential and its process-pool execution (specification Spec);     *)
(*   - the trimmed-mean tempo step of process, applied to one beat array   *)
(*     at a time (specification TrimSpec);                                 *)
(*   - extract_mini_beat_from_beat_arr (specification MiniSpec).           *)
(*                                                                         *)
(* Times are whole seconds. Values the code holds as floats are kept as    *)
(* exact rationals [kind, n, d]; kind is "num", "nan" or "inf", the three  *)
(* outcomes numpy's float arithmetic has here.                             *)
(***************************************************************************)
EXTENDS Integers, Sequences, FiniteSets, TLC

VARIABLES
    \* ---- MadmomBeatTracking.process
    parallel_workers,   \* self.parallel_workers
    est,                \* what each first-pass estimator does on this audio
    pc,                 \* position of process
    task,               \* state of each submitted future
    clock,              \* seconds since the futures were submitted
    end_time,           \* as_completed's deadline, set when it is called
    late,               \* some future was still running 600 s after dispatch
    yielded,            \* futures as_completed has yielded, in that order
    results,            \* the results dict
    pred_beats,         \* <<pred_beats1, pred_beats2, pred_beats3>> so far
    pred_bpm_avg,       \* the consensus BPM
    calls,              \* invocations of each first-pass estimator
    second,             \* the (min_bpm_in, max_bpm_in) of each second-pass call
    ret,                \* what process returned
    error,              \* the exception process ended with
    \* ---- the trimmed-mean step on one array
    t_pc, t_beats, t_sorted, t_start, t_stop, t_slice, t_len, t_bpm,
    \* ---- extract_mini_beat_from_beat_arr
    m_pc, beat_arr, audio_len_sec, mini_beat_div_n, divisions,
    mini_beat_abs_idx, mini_beat_pos_t

procVars == <<parallel_workers, est, pc, task, clock, end_time, late, yielded,
              results, pred_beats, pred_bpm_avg, calls, second, ret, error>>
trimVars == <<t_pc, t_beats, t_sorted, t_start, t_stop, t_slice, t_len, t_bpm>>
miniVars == <<m_pc, beat_arr, audio_len_sec, mini_beat_div_n, divisions,
              mini_beat_abs_idx, mini_beat_pos_t>>
vars == <<procVars, trimVars, miniVars>>

(***************************************************************************)
(* Bounds of the model.                                                    *)
(***************************************************************************)
\* first-pass estimators return beats at seconds 1..MaxEstTime
MaxEstTime == 3
\* parallel_workers ranges over 0..MaxWorkers
MaxWorkers == 3
\* the clock advances at most MaxTicks times, TIMEOUT seconds at a time
MaxTicks == 2
\* the trimmed-mean step is applied to beats at seconds 1..MaxTrimTime
MaxTrimTime == 10
\* the interpolator is given beats at seconds 0..MaxBeatTime
MaxBeatTime == 5
\* audio_len_sec ranges over 0..MaxAudioLen
MaxAudioLen == 6
\* mini_beat_div_n ranges over 0..MaxDivN
MaxDivN == 16

\* as_completed(queue, timeout=600)
TIMEOUT == 600

(***************************************************************************)
(* Sequences and rationals.                                                *)
(***************************************************************************)
Min(a, b) == IF a <= b THEN a ELSE b

Abs(a) == IF a < 0 THEN -a ELSE a

RECURSIVE GCD(_, _)
GCD(a, b) == IF b = 0 THEN a ELSE GCD(b, a % b)

RECURSIVE Sum(_)
Sum(s) == IF s = <<>> THEN 0 ELSE Head(s) + Sum(Tail(s))

NaN == [kind |-> "nan", n |-> 0, d |-> 1]

Inf == [kind |-> "inf", n |-> 1, d |-> 0]

\* the rational a/b, b > 0, in lowest terms
Rat(a, b) ==
    LET g == GCD(Abs(a), b)
    IN  [kind |-> "num", n |-> a \div g, d |-> b \div g]

IsPositiveFinite(x) == x.kind = "num" /\ x.n > 0 /\ x.d > 0

\* the strictly increasing sequence of the elements of a set of integers
RECURSIVE SortedSeqOf(_)
SortedSeqOf(S) ==
    IF S = {} THEN <<>>
    ELSE LET m == CHOOSE x \in S : \A y \in S : x <= y
         IN  <<m>> \o SortedSeqOf(S \ {m})

IsStrictlyIncreasing(s) == \A i \in 1..(Len(s) - 1) : s[i] < s[i + 1]

IsNonDecreasing(s) == \A i \in 1..(Len(s) - 1) : s[i] <= s[i + 1]

\* s[a:b] of Python, 0 <= a, 0 <= b
PySlice(s, a, b) ==
    LET lo == Min(a, Len(s))
        hi == Min(b, Len(s))
    IN  IF lo >= hi THEN <<>> ELSE SubSeq(s, lo + 1, hi)

\* np.sort of a sequence of integers
RECURSIVE Insert(_, _)
Insert(x, s) ==
    IF s = <<>> THEN <<x>>
    ELSE IF x <= Head(s) THEN <<x>> \o s
    ELSE <<Head(s)>> \o Insert(x, Tail(s))

RECURSIVE NpSort(_)
NpSort(s) == IF s = <<>> THEN <<>> ELSE Insert(Head(s), NpSort(Tail(s)))

(***************************************************************************)
(* The tempo arithmetic of process.                                        *)
(***************************************************************************)
\* pred_beats[1:] - pred_beats[:-1]
Intervals(beats) ==
    IF Len(beats) < 2 THEN <<>>
    ELSE [i \in 1..(Len(beats) - 1) |-> beats[i + 1] - beats[i]]

\* mutant: the 20% mark rounded up
TrimStartCeil(L) == (L * 2 + 9) \div 10

\* int(len(pred_beats) * 0.2)
TrimStart(L) == (L * 2) \div 10

\* mutant: the 80% mark taken of the number of intervals
TrimStopOfIntervals(L) == ((L - 1) * 8) \div 10

\* int(len(pred_beats) * 0.8)
TrimStop(L) == (L * 8) \div 10

\* np.sort(...)[int(len * 0.2):int(len * 0.8)]
TrimmedSlice(beats) ==
    PySlice(NpSort(Intervals(beats)), TrimStart(Len(beats)), TrimStop(Len(beats)))

\* np.mean: nan on an empty array
NpMean(s) == IF s = <<>> THEN NaN ELSE Rat(Sum(s), Len(s))

\* 60.0 / pred_beat_len
BpmOf(len) ==
    IF len.kind = "nan" THEN NaN
    ELSE IF len.kind = "inf" THEN Rat(0, 1)
    ELSE IF len.n = 0 THEN Inf
    ELSE Rat(60 * len.d, len.n)

PredBpm(beats) == BpmOf(NpMean(TrimmedSlice(beats)))

\* np.mean([pred_bpm1, pred_bpm2, pred_bpm3])
BpmAvg(b1, b2, b3) ==
    IF "nan" \in {b1.kind, b2.kind, b3.kind} THEN NaN
    ELSE IF "inf" \in {b1.kind, b2.kind, b3.kind} THEN Inf
    ELSE Rat(b1.n * b2.d * b3.d + b2.n * b1.d * b3.d + b3.n * b1.d * b2.d,
             3 * b1.d * b2.d * b3.d)

\* x * p / q
Scale(x, p, q) == IF x.kind = "num" THEN Rat(x.n * p, x.d * q) ELSE x

\* (pred_bpm_avg / 1.38, pred_bpm_avg * 1.38)
SecondPassBounds(avg) ==
    [min_bpm_in |-> Scale(avg, 100, 138), max_bpm_in |-> Scale(avg, 138, 100)]

ConsensusOf(beats3) ==
    BpmAvg(PredBpm(beats3[1]), PredBpm(beats3[2]), PredBpm(beats3[3]))

(***************************************************************************)
(* MadmomBeatTracking.process                                              *)
(***************************************************************************)
Futures == 1..3

\* what future_1, future_2, future_3 run; also the order of the sequential calls
Submitted == <<"dbn_down_beat", "dbn_beat", "beat">>

\* queue = {future_1: "dbn_down_beat", future_2: "dbn_beat", future_3: "beat"}
queue == <<"dbn_down_beat", "dbn_beat", "beat">>

RoleSet == {"dbn_down_beat", "dbn_beat", "beat"}

\* the strictly increasing beat arrays with beats at seconds 1..maxT
BeatArrays(maxT) == {SortedSeqOf(S) : S \in SUBSET (1..maxT)}

\* an estimator call raises, or returns a beat array
EstOutcomes ==
    {[ok |-> FALSE, beats |-> <<>>]}
        \cup {[ok |-> TRUE, beats |-> b] : b \in BeatArrays(MaxEstTime)}

Unset == [kind |-> "unset", n |-> 0, d |-> 1]

NoReturn == [set |-> FALSE, bounds |-> SecondPassBounds(Unset)]

\* process is entered with its configuration and audio; the other two
\* components stay idle
Init ==
    /\ parallel_workers \in 0..MaxWorkers
    /\ est \in [RoleSet -> EstOutcomes]
    /\ pc = "first_pass"
    /\ task = [f \in Futures |-> "none"]
    /\ clock = 0
    /\ end_time = 0
    /\ late = FALSE
    /\ yielded = <<>>
    /\ results = [r \in {} |-> <<>>]
    /\ pred_beats = <<>>
    /\ pred_bpm_avg = Unset
    /\ calls = [r \in RoleSet |-> 0]
    /\ second = <<>>
    /\ ret = NoReturn
    /\ error = "none"
    /\ t_pc = "idle"
    /\ t_beats = <<>>
    /\ t_sorted = <<>>
    /\ t_start = 0
    /\ t_stop = 0
    /\ t_slice = <<>>
    /\ t_len = Unset
    /\ t_bpm = Unset
    /\ m_pc = "idle"
    /\ beat_arr = <<>>
    /\ audio_len_sec = 0
    /\ mini_beat_div_n = 0
    /\ divisions = 0
    /\ mini_beat_abs_idx = <<>>
    /\ mini_beat_pos_t = <<>>

\* mutant: a failed call is skipped and its result taken as empty
ResultNeverRaises(outcome) == FALSE

\* a call of an estimator, or future.result(), raises the estimator's exception
ResultRaises(outcome) == ~outcome.ok

\* mutant: the result is filed under the role at its completion position
RoleByPosition(future, position) == queue[position]

\* func_name = queue[future]
QueueRole(future, position) == queue[future]

\* parallel_workers == 0: the next of the three calls, in program order
SeqCall ==
    /\ pc = "first_pass"
    /\ parallel_workers = 0
    /\ LET i == Len(pred_beats) + 1
           r == Submitted[i]
       IN  /\ calls' = [calls EXCEPT ![r] = @ + 1]
           /\ IF ResultRaises(est[r])
              THEN /\ pc' = "raised"
                   /\ error' = "EstimatorError"
                   /\ pred_beats' = pred_beats
              ELSE /\ pc' = IF i = 3 THEN "bpm" ELSE "first_pass"
                   /\ error' = error
                   /\ pred_beats' = Append(pred_beats, est[r].beats)
    /\ UNCHANGED <<trimVars, miniVars>>
    /\ UNCHANGED <<parallel_workers, est, task, clock, end_time, late, yielded,
                   results, pred_bpm_avg, second, ret>>

\* the futures a pool of w workers runs at once, of those waiting in `t`:
\* the workers take the queued calls in submission order
Started(t, w) ==
    LET running == {f \in Futures : t[f] = "running"}
        waiting == {f \in Futures : t[f] = "queued"}
        free    == w - Cardinality(running)
    IN  {f \in waiting : Cardinality({g \in waiting : g < f}) < free}

\* `t` after the free workers have taken their calls
Dispatch(t, w) ==
    [f \in Futures |-> IF f \in Started(t, w) THEN "running" ELSE t[f]]

CallsAfter(t, w) ==
    [r \in RoleSet |->
        calls[r] + Cardinality({f \in Started(t, w) : Submitted[f] = r})]

\* the three executor.submit calls
Submit ==
    /\ pc = "first_pass"
    /\ parallel_workers > 0
    /\ LET t == [f \in Futures |-> "queued"]
       IN  /\ task' = Dispatch(t, parallel_workers)
           /\ calls' = CallsAfter(t, parallel_workers)
    /\ pc' = "with_exit"
    /\ UNCHANGED <<trimVars, miniVars>>
    /\ UNCHANGED <<parallel_workers, est, clock, end_time, late, yielded, results,
                   pred_beats, pred_bpm_avg, second, ret, error>>

\* a worker finishes its call (the result or the exception is stored in the
\* future) and takes the next queued one
FinishTask(f) ==
    /\ pc = "with_exit"
    /\ task[f] = "running"
    /\ LET t == [task EXCEPT ![f] = "done"]
       IN  /\ task' = Dispatch(t, parallel_workers)
           /\ calls' = CallsAfter(t, parallel_workers)
    /\ UNCHANGED <<trimVars, miniVars>>
    /\ UNCHANGED <<parallel_workers, est, pc, clock, end_time, late, yielded,
                   results, pred_beats, pred_bpm_avg, second, ret, error>>

\* TIMEOUT seconds pass while an estimator is still running
Tick ==
    /\ pc = "with_exit"
    /\ \E f \in Futures : task[f] = "running"
    /\ clock < MaxTicks * TIMEOUT
    /\ clock' = clock + TIMEOUT
    /\ late' = (late \/ clock' > TIMEOUT)
    /\ UNCHANGED <<trimVars, miniVars>>
    /\ UNCHANGED <<parallel_workers, est, pc, task, end_time, yielded, results,
                   pred_beats, pred_bpm_avg, calls, second, ret, error>>

\* the end of the with block: ProcessPoolExecutor.__exit__ is shutdown(wait=True),
\* which returns once every submitted future is done; as_completed is called
\* next and fixes its deadline then
ExitWith ==
    /\ pc = "with_exit"
    /\ \A f \in Futures : task[f] = "done"
    /\ pc' = "as_completed"
    /\ end_time' = clock + TIMEOUT
    /\ UNCHANGED <<trimVars, miniVars>>
    /\ UNCHANGED <<parallel_workers, est, task, clock, late, yielded, results,
                   pred_beats, pred_bpm_avg, calls, second, ret, error>>

\* one round of the for loop over as_completed(queue, timeout=600): the finished
\* futures are yielded, in no fixed order; with none finished and some pending,
\* as_completed raises TimeoutError once the deadline has passed
AsCompleted ==
    /\ pc = "as_completed"
    /\ LET seen     == {yielded[i] : i \in 1..Len(yielded)}
           finished == {f \in Futures : task[f] = "done" /\ f \notin seen}
           pending  == {f \in Futures : task[f] # "done"}
       IN  IF finished # {}
           THEN \E future \in finished :
                  LET func_name == QueueRole(future, Len(yielded) + 1)
                      outcome   == est[Submitted[future]]
                  IN  /\ yielded' = Append(yielded, future)
                      /\ IF ResultRaises(outcome)
                         THEN /\ pc' = "raised"
                              /\ error' = "EstimatorError"
                              /\ results' = results
                         ELSE /\ pc' = pc
                              /\ error' = error
                              /\ results' = (func_name :> outcome.beats) @@ results
           ELSE /\ pending # {}
                /\ clock > end_time
                /\ pc' = "raised"
                /\ error' = "TimeoutError"
                /\ UNCHANGED <<yielded, results>>
    /\ UNCHANGED <<trimVars, miniVars>>
    /\ UNCHANGED <<parallel_workers, est, task, clock, end_time, late, pred_beats,
                   pred_bpm_avg, calls, second, ret>>

\* pred_beats1 = results["dbn_down_beat"], ... after the loop
AssignResults ==
    /\ pc = "as_completed"
    /\ Len(yielded) = 3
    /\ IF RoleSet \subseteq DOMAIN results
       THEN /\ pred_beats' = <<results["dbn_down_beat"], results["dbn_beat"],
                               results["beat"]>>
            /\ pc' = "bpm"
            /\ error' = error
       ELSE /\ pred_beats' = pred_beats
            /\ pc' = "raised"
            /\ error' = "KeyError"
    /\ UNCHANGED <<trimVars, miniVars>>
    /\ UNCHANGED <<parallel_workers, est, task, clock, end_time, late, yielded,
                   results, pred_bpm_avg, calls, second, ret>>

\* the three trimmed means and np.mean of the three BPMs
ComputeBpm ==
    /\ pc = "bpm"
    /\ pred_bpm_avg' = ConsensusOf(pred_beats)
    /\ pc' = "second"
    /\ UNCHANGED <<trimVars, miniVars>>
    /\ UNCHANGED <<parallel_workers, est, task, clock, end_time, late, yielded,
                   results, pred_beats, calls, second, ret, error>>

\* return self._get_dbn_down_beat(audio_data, pred_bpm_avg / 1.38, pred_bpm_avg * 1.38):
\* the estimator is deterministic, so its result stands for its arguments; like
\* any estimator call it may raise
SecondPass ==
    /\ pc = "second"
    /\ LET bounds == SecondPassBounds(pred_bpm_avg)
       IN  /\ second' = Append(second, bounds)
           /\ \E ok \in BOOLEAN :
                IF ok
                THEN /\ pc' = "returned"
                     /\ ret' = [set |-> TRUE, bounds |-> bounds]
                     /\ error' = error
                ELSE /\ pc' = "raised"
                     /\ ret' = ret
                     /\ error' = "SecondPassError"
    /\ UNCHANGED <<trimVars, miniVars>>
    /\ UNCHANGED <<parallel_workers, est, task, clock, end_time, late, yielded,
                   results, pred_beats, pred_bpm_avg, calls>>

Next ==
    \/ SeqCall
    \/ Submit
    \/ \E f \in Futures : FinishTask(f)
    \/ Tick
    \/ ExitWith
    \/ AsCompleted
    \/ AssignResults
    \/ ComputeBpm
    \/ SecondPass

Spec == Init /\ [][Next]_vars

(***************************************************************************)
(* The trimmed-mean step of process on one beat array, one expression of   *)
(* lines 80-83 at a time.                                                  *)
(***************************************************************************)
TrimInit ==
    /\ t_pc = "sort"
    /\ t_beats \in BeatArrays(MaxTrimTime)
    /\ t_sorted = <<>>
    /\ t_start = 0
    /\ t_stop = 0
    /\ t_slice = <<>>
    /\ t_len = Unset
    /\ t_bpm = Unset
    /\ parallel_workers = 0
    /\ est = [r \in RoleSet |-> [ok |-> FALSE, beats |-> <<>>]]
    /\ pc = "idle"
    /\ task = [f \in Futures |-> "none"]
    /\ clock = 0
    /\ end_time = 0
    /\ late = FALSE
    /\ yielded = <<>>
    /\ results = [r \in {} |-> <<>>]
    /\ pred_beats = <<>>
    /\ pred_bpm_avg = Unset
    /\ calls = [r \in RoleSet |-> 0]
    /\ second = <<>>
    /\ ret = NoReturn
    /\ error = "none"
    /\ m_pc = "idle"
    /\ beat_arr = <<>>
    /\ audio_len_sec = 0
    /\ mini_beat_div_n = 0
    /\ divisions = 0
    /\ mini_beat_abs_idx = <<>>
    /\ mini_beat_pos_t = <<>>

\* np.sort(pred_beats[1:] - pred_beats[:-1])
TrimSort ==
    /\ t_pc = "sort"
    /\ t_sorted' = NpSort(Intervals(t_beats))
    /\ t_pc' = "slice"
    /\ UNCHANGED <<t_beats, t_start, t_stop, t_slice, t_len, t_bpm>>
    /\ UNCHANGED <<procVars, miniVars>>

\* [int(len(pred_beats) * 0.2):int(len(pred_beats) * 0.8)]
TrimSlice ==
    /\ t_pc = "slice"
    /\ t_start' = TrimStart(Len(t_beats))
    /\ t_stop' = TrimStop(Len(t_beats))
    /\ t_slice' = PySlice(t_sorted, t_start', t_stop')
    /\ t_pc' = "mean"
    /\ UNCHANGED <<t_beats, t_sorted, t_len, t_bpm>>
    /\ UNCHANGED <<procVars, miniVars>>

\* pred_beat_len = np.mean(...)
TrimMean ==
    /\ t_pc = "mean"
    /\ t_len' = NpMean(t_slice)
    /\ t_pc' = "bpm"
    /\ UNCHANGED <<t_beats, t_sorted, t_start, t_stop, t_slice, t_bpm>>
    /\ UNCHANGED <<procVars, miniVars>>

\* pred_bpm = 60.0 / pred_beat_len
TrimBpm ==
    /\ t_pc = "bpm"
    /\ t_bpm' = BpmOf(t_len)
    /\ t_pc' = "done"
    /\ UNCHANGED <<t_beats, t_sorted, t_start, t_stop, t_slice, t_len>>
    /\ UNCHANGED <<procVars, miniVars>>

TrimNext == TrimSort \/ TrimSlice \/ TrimMean \/ TrimBpm

TrimSpec == TrimInit /\ [][TrimNext]_vars

(***************************************************************************)
(* extract_mini_beat_from_beat_arr. A timestamp or a beat index of the     *)
(* sampling grid is held as its numerator over `divisions`.                *)
(***************************************************************************)
\* mutant: the quotient truncated
NpRoundDown(x) == x \div 4

\* np.round(x / 4).astype("int"): halves go to the even neighbour
NpRoundQuarter(x) ==
    LET q == x \div 4
        r == x % 4
    IN  IF r < 2 THEN q
        ELSE IF r > 2 THEN q + 1
        ELSE IF q % 2 = 0 THEN q ELSE q + 1

\* mutant: the endpoint included
NpArangeInclusive(stop, d) == [k \in 1..(stop * d + 1) |-> k - 1]

\* np.arange(0, stop, 1 / d): ceil(stop / (1 / d)) points 0, 1/d, 2/d, ...
\* (in exact arithmetic; the float quotient agrees with it for every d below 49)
NpArange(stop, d) == [k \in 1..(stop * d) |-> k - 1]

\* interp1d(beat_abs_idx, beat_time_ary_in, fill_value="extrapolate") at index
\* k/d, times d: linear between the beats at indices i and i + 1 (counted from
\* 1), and along the first or the last segment outside 1..len(beat_arr)
BeatMapFunc(beats, k, d) ==
    LET N == Len(beats)
        f == k \div d
        i == IF f < 1 THEN 1 ELSE IF f > N - 1 THEN N - 1 ELSE f
    IN  d * beats[i] + (k - i * d) * (beats[i + 1] - beats[i])

\* mutant: a timestamp of exactly 0 dropped
KeepLowStrict(x) == x > 0

\* x >= 0
KeepLow(x) == x >= 0

\* mutant: the upper filter forgotten
KeepHighAlways(x, limit) == TRUE

\* x <= audio_len_sec
KeepHigh(x, limit) == x <= limit

MiniInit ==
    /\ m_pc = "round"
    /\ beat_arr \in {b \in {SortedSeqOf(S) : S \in SUBSET (0..MaxBeatTime)} : Len(b) >= 2}
    /\ audio_len_sec \in 0..MaxAudioLen
    /\ mini_beat_div_n \in 0..MaxDivN
    /\ divisions = 0
    /\ mini_beat_abs_idx = <<>>
    /\ mini_beat_pos_t = <<>>
    /\ parallel_workers = 0
    /\ est = [r \in RoleSet |-> [ok |-> FALSE, beats |-> <<>>]]
    /\ pc = "idle"
    /\ task = [f \in Futures |-> "none"]
    /\ clock = 0
    /\ end_time = 0
    /\ late = FALSE
    /\ yielded = <<>>
    /\ results = [r \in {} |-> <<>>]
    /\ pred_beats = <<>>
    /\ pred_bpm_avg = Unset
    /\ calls = [r \in RoleSet |-> 0]
    /\ second = <<>>
    /\ ret = NoReturn
    /\ error = "none"
    /\ t_pc = "idle"
    /\ t_beats = <<>>
    /\ t_sorted = <<>>
    /\ t_start = 0
    /\ t_stop = 0
    /\ t_slice = <<>>
    /\ t_len = Unset
    /\ t_bpm = Unset

\* mini_beat_div_n = np.round(mini_beat_div_n / 4).astype("int")
MiniRound ==
    /\ m_pc = "round"
    /\ divisions' = NpRoundQuarter(mini_beat_div_n)
    /\ m_pc' = "arange"
    /\ UNCHANGED <<beat_arr, audio_len_sec, mini_beat_div_n, mini_beat_abs_idx,
                   mini_beat_pos_t>>
    /\ UNCHANGED <<procVars, trimVars>>

\* mini_beat_abs_idx = np.arange(0, beat_arr.shape[0] + 1, 1 / mini_beat_div_n);
\* with 0 divisions the step is 1 / 0 and no grid is built
MiniArange ==
    /\ m_pc = "arange"
    /\ IF divisions = 0
       THEN /\ m_pc' = "zero_division"
            /\ mini_beat_abs_idx' = mini_beat_abs_idx
       ELSE /\ m_pc' = "sample"
            /\ mini_beat_abs_idx' = NpArange(Len(beat_arr) + 1, divisions)
    /\ UNCHANGED <<beat_arr, audio_len_sec, mini_beat_div_n, divisions,
                   mini_beat_pos_t>>
    /\ UNCHANGED <<procVars, trimVars>>

\* mini_beat_pos_t = [beat_map_func(x) for x in mini_beat_abs_idx]
MiniSample ==
    /\ m_pc = "sample"
    /\ mini_beat_pos_t' =
          [j \in 1..Len(mini_beat_abs_idx) |->
              BeatMapFunc(beat_arr, mini_beat_abs_idx[j], divisions)]
    /\ m_pc' = "filter_low"
    /\ UNCHANGED <<beat_arr, audio_len_sec, mini_beat_div_n, divisions,
                   mini_beat_abs_idx>>
    /\ UNCHANGED <<procVars, trimVars>>

\* mini_beat_pos_t = np.array([x for x in mini_beat_pos_t if x >= 0])
MiniFilterLow ==
    /\ m_pc = "filter_low"
    /\ mini_beat_pos_t' = SelectSeq(mini_beat_pos_t, KeepLow)
    /\ m_pc' = "filter_high"
    /\ UNCHANGED <<beat_arr, audio_len_sec, mini_beat_div_n, divisions,
                   mini_beat_abs_idx>>
    /\ UNCHANGED <<procVars, trimVars>>

\* mini_beat_pos_t = np.array([x for x in mini_beat_pos_t if x <= audio_len_sec])
\* and the return
MiniFilterHigh ==
    /\ m_pc = "filter_high"
    /\ LET Keep(x) == KeepHigh(x, divisions * audio_len_sec)
       IN  mini_beat_pos_t' = SelectSeq(mini_beat_pos_t, Keep)
    /\ m_pc' = "done"
    /\ UNCHANGED <<beat_arr, audio_len_sec, mini_beat_div_n, divisions,
                   mini_beat_abs_idx>>
    /\ UNCHANGED <<procVars, trimVars>>

MiniNext == MiniRound \/ MiniArange \/ MiniSample \/ MiniFilterLow \/ MiniFilterHigh

MiniSpec == MiniInit /\ [][MiniNext]_vars

(***************************************************************************)
(* Properties of process (specification Spec).                             *)
(***************************************************************************)
\* what the three estimators return on this audio, by role
EstBeats == <<est["dbn_down_beat"].beats, est["dbn_beat"].beats, est["beat"].beats>>

Called(r) == calls[r] > 0

\* C1: whatever parallel_workers is and in whatever order the futures are
\* yielded, pred_beats1..3 are the results of dbn_down_beat, dbn_beat and beat in
\* that order, so the consensus BPM, the bounds of the second pass and with them
\* the returned array are a function of the estimators' outputs alone: the
\* sequential and the parallel run of one audio return the same array.
C1_ResultBoundToRole ==
    /\ Len(pred_beats) = 3 => pred_beats = EstBeats
    /\ pc \in {"second", "returned"} => pred_bpm_avg = ConsensusOf(EstBeats)
    /\ second # <<>> => second = <<SecondPassBounds(ConsensusOf(EstBeats))>>
    /\ ret.set => ret.bounds = SecondPassBounds(ConsensusOf(EstBeats))

\* a parallel run that returned, its futures yielded out of submission order,
\* the three estimators having returned three different usable arrays
C1_Witness ==
    /\ pc = "returned"
    /\ parallel_workers > 0
    /\ yielded = <<3, 1, 2>>
    /\ \A i \in 1..3 : Len(EstBeats[i]) >= 2
    /\ EstBeats[1] # EstBeats[2] /\ EstBeats[2] # EstBeats[3] /\ EstBeats[1] # EstBeats[3]
    /\ PredBpm(EstBeats[1]) # PredBpm(EstBeats[3])

\* C2 (as claimed): in parallel mode, when the three futures have not all
\* completed 600 seconds after dispatch, process does not go on to the tempo
\* step and returns nothing.
C2_WaitCeiling ==
    (parallel_workers > 0 /\ late) => pc \notin {"bpm", "second", "returned"}

\* C6: a first-pass estimator that was called and failed ends process with its
\* exception: no estimator is called twice, no consensus BPM is computed, the
\* second pass is not invoked and nothing is returned.
C6_FailureAborts ==
    /\ \A r \in RoleSet : calls[r] <= 1
    /\ (\E r \in RoleSet : Called(r) /\ ~est[r].ok) =>
          /\ pc \in {"with_exit", "as_completed", "raised"}
          /\ pc # "raised" => parallel_workers > 0
          /\ pc = "raised" => error = "EstimatorError"
          /\ pred_bpm_avg = Unset
          /\ second = <<>>
          /\ ~ret.set

\* a parallel run in which exactly one estimator failed and the two usable
\* results had already been collected when its exception was raised
C6_Witness ==
    /\ pc = "raised"
    /\ error = "EstimatorError"
    /\ parallel_workers > 0
    /\ Cardinality({r \in RoleSet : ~est[r].ok}) = 1
    /\ \A r \in RoleSet : est[r].ok => Len(est[r].beats) >= 2
    /\ Cardinality(DOMAIN results) = 2
    /\ \A r \in RoleSet : calls[r] = 1

\* C7 (as claimed): once an estimator has returned fewer than 2 beats, no
\* consensus BPM is computed and the second pass is not invoked.
C7_ShortResultRejected ==
    (\E i \in 1..Len(pred_beats) : Len(pred_beats[i]) < 2) =>
        /\ pc \notin {"second", "returned"}
        /\ pred_bpm_avg = Unset
        /\ second = <<>>

(***************************************************************************)
(* Properties of the trimmed-mean step (specification TrimSpec).           *)
(***************************************************************************)
Sliced == t_pc \in {"mean", "bpm", "done"}

\* intervals left out at the short end and at the long end of the sorted array
DroppedShort == Min(t_start, Len(t_sorted))

DroppedLong == Len(t_sorted) - Min(t_stop, Len(t_sorted))

\* C5: for a strictly increasing beat array of length >= 2 the slice of the
\* sorted intervals is not empty, its mean is a positive finite number and so is
\* the BPM.
C5_TrimmedMeanPositive ==
    (Len(t_beats) >= 2 /\ IsStrictlyIncreasing(t_beats)) =>
        /\ Sliced => t_slice # <<>>
        /\ t_pc \in {"bpm", "done"} => IsPositiveFinite(t_len)
        /\ t_pc = "done" => IsPositiveFinite(t_bpm)

\* an array whose intervals really are trimmed, at both ends
C5_Witness ==
    /\ t_pc = "done"
    /\ Len(t_beats) >= 6
    /\ DroppedShort >= 1
    /\ DroppedLong >= 1
    /\ t_sorted[1] < t_sorted[Len(t_sorted)]

\* C9 (as claimed): as many intervals are dropped from the short end as from the
\* long end.
C9_SymmetricTrim ==
    (Len(t_beats) >= 2 /\ Sliced) => DroppedShort = DroppedLong

\* C9 (amended): with L beats, the intervals averaged are those at the sorted
\* positions floor(L/5) .. floor(4L/5) - 1; floor(L/5) are dropped from the short
\* end and L - 1 - floor(4L/5) from the long end, which is the same number unless
\* L is a multiple of 5, and then one more is dropped from the short end.
C9_TrimByBeatCount ==
    (Len(t_beats) >= 2 /\ Sliced) =>
        LET L == Len(t_beats)
        IN  /\ t_slice = SubSeq(t_sorted, (L \div 5) + 1, (4 * L) \div 5)
            /\ DroppedShort = L \div 5
            /\ DroppedLong = (L - 1) - ((4 * L) \div 5)
            /\ DroppedShort - DroppedLong = IF L % 5 = 0 THEN 1 ELSE 0

\* five beats: the shortest interval is dropped, the longest is kept
C9_Witness ==
    /\ t_pc = "done"
    /\ Len(t_beats) = 5
    /\ DroppedShort = 1
    /\ DroppedLong = 0
    /\ t_sorted[1] < t_sorted[4]

(***************************************************************************)
(* Properties of extract_mini_beat_from_beat_arr (specification MiniSpec). *)
(***************************************************************************)
Sampled == m_pc \in {"sample", "filter_low", "filter_high", "done"}

LastIdx == mini_beat_abs_idx[Len(mini_beat_abs_idx)]

AllBeatsInAudio == \A i \in 1..Len(beat_arr) : beat_arr[i] <= audio_len_sec

\* the timestamp extrapolated one beat before the first beat
BeatBeforeFirst == 2 * beat_arr[1] - beat_arr[2]

\* C3: the returned array is non-decreasing and each of its timestamps t has
\* 0 <= t <= audio_len_sec.
C3_SortedWithinAudio ==
    m_pc = "done" =>
        /\ IsNonDecreasing(mini_beat_pos_t)
        /\ \A j \in 1..Len(mini_beat_pos_t) :
              /\ 0 <= mini_beat_pos_t[j]
              /\ mini_beat_pos_t[j] <= divisions * audio_len_sec

\* a run with subdivided beats in which the filters removed a timestamp
\* extrapolated below 0 and one extrapolated beyond the audio, and kept some
C3_Witness ==
    /\ m_pc = "done"
    /\ divisions >= 2
    /\ BeatMapFunc(beat_arr, 0, divisions) < 0
    /\ BeatMapFunc(beat_arr, LastIdx, divisions) > divisions * audio_len_sec
    /\ LastIdx > Len(beat_arr) * divisions
    /\ Len(mini_beat_pos_t) >= 2

\* C4 (as claimed): with mini_beat_div_n = 4 and every beat within the audio the
\* returned array is the beat array.
C4_EqualsBeatArr ==
    (m_pc = "done" /\ mini_beat_div_n = 4 /\ AllBeatsInAudio) =>
        mini_beat_pos_t = beat_arr

\* C4 (amended): with mini_beat_div_n = 4 and every beat within the audio the
\* returned array is the beat array, no beat removed, preceded by the timestamp
\* 2 * beat_arr[0] - beat_arr[1] extrapolated at index 0 when that is >= 0; it is
\* the beat array itself exactly when that timestamp is negative.
C4_BeatArrAfterExtrapolatedBeat ==
    (m_pc = "done" /\ mini_beat_div_n = 4 /\ AllBeatsInAudio) =>
        mini_beat_pos_t =
            (IF BeatBeforeFirst >= 0 THEN <<BeatBeforeFirst>> ELSE <<>>) \o beat_arr

\* a run with one division per beat whose output has one element more than the
\* beat array, at second 0
C4_Witness ==
    /\ m_pc = "done"
    /\ mini_beat_div_n = 4
    /\ AllBeatsInAudio
    /\ Len(mini_beat_pos_t) = Len(beat_arr) + 1
    /\ mini_beat_pos_t[1] = 0

\* C8 (as claimed): mini_beat_div_n >= 2 gives at least 1 division per beat, and
\* no step of 1/0.
C8_TwoIsEnough ==
    (mini_beat_div_n >= 2 /\ m_pc # "round") =>
        (divisions >= 1 /\ m_pc # "zero_division")

\* C8 (amended): mini_beat_div_n >= 3 gives at least 1 division per beat, and no
\* step of 1/0; np.round takes 2/4 to 0.
C8_ThreeIsEnough ==
    (mini_beat_div_n >= 3 /\ m_pc # "round") =>
        (divisions >= 1 /\ m_pc # "zero_division")

\* the smallest accepted mini_beat_div_n, run to the end
C8_Witness ==
    /\ m_pc = "done"
    /\ mini_beat_div_n = 3
    /\ divisions = 1

\* C10 (as claimed): the first sampled index is 0, the last is N, none is
\* greater than N.
C10_LastIndexIsN ==
    Sampled =>
        /\ mini_beat_abs_idx[1] = 0
        /\ LastIdx = Len(beat_arr) * divisions
        /\ \A j \in 1..Len(mini_beat_abs_idx) :
              mini_beat_abs_idx[j] <= Len(beat_arr) * divisions

\* C10 (amended): with N beats and d divisions the sampled indices are exactly
\* k/d for k = 0 .. (N + 1) * d - 1: the first is 0, the last is N + (d - 1)/d,
\* none reaches N + 1, and the last is N only when d = 1.
C10_GridStopsBeforeNPlus1 ==
    Sampled =>
        /\ Len(mini_beat_abs_idx) = (Len(beat_arr) + 1) * divisions
        /\ \A j \in 1..Len(mini_beat_abs_idx) : mini_beat_abs_idx[j] = j - 1
        /\ LastIdx < (Len(beat_arr) + 1) * divisions
        /\ (LastIdx = Len(beat_arr) * divisions) <=> (divisions = 1)

\* two divisions per beat: the last sampled index is N + 1/2, and its timestamp
\* is in the output
C10_Witness ==
    /\ m_pc = "done"
    /\ divisions = 2
    /\ LastIdx = Len(beat_arr) * divisions + 1
    /\ mini_beat_pos_t # <<>>
    /\ mini_beat_pos_t[Len(mini_beat_pos_t)] = BeatMapFunc(beat_arr, LastIdx, divisions)

====
